---- MODULE Spec2Model ----
(***************************************************************************)
(* A model of the platform MCP bridge: the retrying upstream client and    *)
(* the tool dispatcher of the HTTP server (src/main.py), and the           *)
(* line-delimited JSON-RPC loop of the stdio bridge (src/mcp-bridge.py).   *)
(*                                                                         *)
(* Python dicts are records, f-strings are tuples of their parts, a        *)
(* missing dict key or an unbound name is the value Absent, and a raised   *)
(* exception is a record naming its class.                                 *)
(***************************************************************************)
EXTENDS Integers, Sequences, FiniteSets, TLC

\* ------------------------------------------------------------------ bounds

\* The largest MAX_RETRY_ATTEMPTS setting explored (the default is 3).
MaxRetry == 3

\* The number of lines the bridge reads from stdin before end-of-input.
MaxLines == 2

\* ------------------------------------------------------------ python values

\* dict.get() on a missing key, and a local name that was never bound.
Absent == "<absent>"

\* Python's None / JSON null.
None == "<None>"

\* The empty dict {}.
EmptyDict == "{}"

\* Python truthiness of the argument values used here: `not v`.
Falsy(v) == v \in {Absent, None, "", EmptyDict}

\* ---------------------------------------------------------------- AuthConfig

VARIABLES
    max_retry_attempts,   \* AuthConfig.max_retry_attempts
    mcp_server_token      \* AuthConfig.mcp_server_token

\* int(os.getenv("MAX_RETRY_ATTEMPTS", "3")): any integer the environment
\* holds, zero and negative ones included; nothing validates it.
RetrySettings == {-1} \cup (0..MaxRetry)

\* The tokens a caller may present; the first is the configured one.
Tokens == {"s3cret", "S3CRET", "s3cre"}

\* _validate_tokens: the server token is a non-empty string.
AuthConfigInit ==
    /\ max_retry_attempts \in RetrySettings
    /\ mcp_server_token = "s3cret"

\* ------------------------------------------------------------ upstream client

VARIABLES
    callState,     \* per call of _make_api_request: "idle", "looping", "returned"
    attempt,       \* the loop variable `attempt` of the call
    invocations,   \* session.request() calls the upstream has seen from the call
    served,        \* what the upstream did on each of those, in order
    result         \* the value the call returned (Absent until it returns)

\* The one call of the request operation the client specification follows.
ClientCalls == {1}

\* str(response.status) inside the f-string of line 132.
StatusStr(s) ==
    CASE s = 200 -> "200" [] s = 401 -> "401" [] s = 404 -> "404" [] s = 500 -> "500"

\* response.json(): the parsed document, or a failure for a body that is not JSON.
json_parse(body) ==
    CASE body = "{\"id\": 42}"          -> [ok |-> TRUE,  value |-> [id |-> 42]]
      [] body = "{\"error\": \"denied\"}" -> [ok |-> TRUE,  value |-> [error |-> <<"denied">>]]
      [] OTHER                          -> [ok |-> FALSE, value |-> Absent]

\* What one attempt meets.  conn: session.request() yields a response, times
\* out or raises; read: how reading the body as text goes when the code reads it.
Outcome(conn, status, body, read) ==
    [conn |-> conn, status |-> status, body |-> body, read |-> read]

Outcomes ==
    {Outcome("timeout", 0, "", "-"), Outcome("exception", 0, "", "-")}
    \cup {Outcome("response", 401, "", "-")}
    \cup {Outcome("response", s, "plain text", r) :
            s \in {404, 500}, r \in {"ok", "timeout", "exception"}}
    \cup {Outcome("response", 200, b, "-") : b \in {"{\"id\": 42}", "{\"error\": \"denied\"}"}}
    \cup {Outcome("response", 200, "plain text", r) : r \in {"ok", "timeout", "exception"}}

\* str(e) of the transport exception.
ExcText == "Connection reset by peer"

\* Mutant: a success body that is not JSON is treated as a transport failure.
AttemptEndStrictJson(o) ==
    IF o.conn = "timeout" THEN [how |-> "timeout", value |-> Absent]
    ELSE IF o.conn = "exception" THEN [how |-> "exception", value |-> Absent]
    ELSE IF o.status = 401 THEN [how |-> "auth", value |-> Absent]
    ELSE IF o.status >= 400 THEN
        IF o.read = "timeout" THEN [how |-> "timeout", value |-> Absent]
        ELSE IF o.read = "exception" THEN [how |-> "exception", value |-> Absent]
        ELSE [how |-> "return",
              value |-> [error |-> <<"API request failed: ", StatusStr(o.status)>>]]
    ELSE IF json_parse(o.body).ok THEN
        [how |-> "return", value |-> json_parse(o.body).value]
    ELSE [how |-> "exception", value |-> Absent]

\* How the body of one loop iteration ends (lines 112-148), before the
\* last-attempt tests: "return" with a value, or one of the three handlers
\* that may go round again: "auth" (the 401 branch), "timeout" (except
\* asyncio.TimeoutError), "exception" (except Exception).
AttemptEnd(o) ==
    IF o.conn = "timeout" THEN [how |-> "timeout", value |-> Absent]
    ELSE IF o.conn = "exception" THEN [how |-> "exception", value |-> Absent]
    ELSE IF o.status = 401 THEN [how |-> "auth", value |-> Absent]
    ELSE IF o.status >= 400 THEN
        \* line 130 awaits response.text() inside the try block
        IF o.read = "timeout" THEN [how |-> "timeout", value |-> Absent]
        ELSE IF o.read = "exception" THEN [how |-> "exception", value |-> Absent]
        ELSE [how |-> "return",
              value |-> [error |-> <<"API request failed: ", StatusStr(o.status)>>]]
    ELSE IF json_parse(o.body).ok THEN
        [how |-> "return", value |-> json_parse(o.body).value]
    ELSE
        \* the bare except of line 136, then response.text() inside the try block
        IF o.read = "timeout" THEN [how |-> "timeout", value |-> Absent]
        ELSE IF o.read = "exception" THEN [how |-> "exception", value |-> Absent]
        ELSE [how |-> "return", value |-> [data |-> o.body]]

\* Mutant: one exhaustion error for all three handlers.
ExhaustedErrorGeneric(how) == [error |-> <<"Request failed after all retry attempts">>]

\* The value returned when the handler `how` runs on the last attempt.
ExhaustedError(how) ==
    CASE how = "auth"      -> [error |-> <<"Authentication failed after all retry attempts">>]
      [] how = "timeout"   -> [error |-> <<"Request timeout after all retry attempts">>]
      [] how = "exception" -> [error |-> <<"Request failed: ", ExcText>>]

\* Mutant: the last-attempt test is off by one.
IsLastAttemptOffByOne(a) == a = max_retry_attempts

\* attempt == self.auth_config.max_retry_attempts - 1
IsLastAttempt(a) == a = max_retry_attempts - 1

\* Mutant: the loop runs once more than range() allows.
InRangeInclusive(a) == a <= max_retry_attempts

\* for attempt in range(max_retry_attempts): the loop body runs for this value.
InRange(a) == a < max_retry_attempts

ClientInit ==
    /\ callState = [c \in ClientCalls |-> "looping"]
    /\ attempt = [c \in ClientCalls |-> 0]
    /\ invocations = [c \in ClientCalls |-> 0]
    /\ served = [c \in ClientCalls |-> <<>>]
    /\ result = [c \in ClientCalls |-> Absent]

\* Mutant: the loop counter is one variable shared by all the calls.
AttemptSharedCounter(c, o) ==
    /\ callState[c] = "looping"
    /\ InRange(attempt[c])
    /\ invocations' = [invocations EXCEPT ![c] = @ + 1]
    /\ served' = [served EXCEPT ![c] = Append(@, o)]
    /\ LET end == AttemptEnd(o) IN
       IF end.how = "return" THEN
            /\ result' = [result EXCEPT ![c] = end.value]
            /\ callState' = [callState EXCEPT ![c] = "returned"]
            /\ UNCHANGED attempt
       ELSE IF IsLastAttempt(attempt[c]) THEN
            /\ result' = [result EXCEPT ![c] = ExhaustedError(end.how)]
            /\ callState' = [callState EXCEPT ![c] = "returned"]
            /\ UNCHANGED attempt
       ELSE
            /\ attempt' = [d \in DOMAIN attempt |-> attempt[d] + 1]
            /\ UNCHANGED <<result, callState>>
    /\ UNCHANGED <<max_retry_attempts, mcp_server_token>>

\* One iteration of the loop of _make_api_request: one session.request(),
\* answered by the upstream with outcome o.
Attempt(c, o) ==
    /\ callState[c] = "looping"
    /\ InRange(attempt[c])
    /\ invocations' = [invocations EXCEPT ![c] = @ + 1]
    /\ served' = [served EXCEPT ![c] = Append(@, o)]
    /\ LET end == AttemptEnd(o) IN
       IF end.how = "return" THEN
            /\ result' = [result EXCEPT ![c] = end.value]
            /\ callState' = [callState EXCEPT ![c] = "returned"]
            /\ UNCHANGED attempt
       ELSE IF IsLastAttempt(attempt[c]) THEN
            /\ result' = [result EXCEPT ![c] = ExhaustedError(end.how)]
            /\ callState' = [callState EXCEPT ![c] = "returned"]
            /\ UNCHANGED attempt
       ELSE
            /\ attempt' = [attempt EXCEPT ![c] = @ + 1]
            /\ UNCHANGED <<result, callState>>
    /\ UNCHANGED <<max_retry_attempts, mcp_server_token>>

\* The loop ends without a return: line 150.
FallThrough(c) ==
    /\ callState[c] = "looping"
    /\ ~InRange(attempt[c])
    /\ result' = [result EXCEPT ![c] = [error |-> <<"Max retry attempts exceeded">>]]
    /\ callState' = [callState EXCEPT ![c] = "returned"]
    /\ UNCHANGED <<attempt, invocations, served, max_retry_attempts, mcp_server_token>>

clientVars == <<callState, attempt, invocations, served, result>>

\* The whole of _make_api_request against an upstream that answers its
\* attempts with script[1], script[2], ...: the value returned and the
\* number of session.request() calls made, from loop value a on.
RECURSIVE api_request_from(_, _, _)
api_request_from(a, n, script) ==
    IF ~InRange(a) THEN
        [value |-> [error |-> <<"Max retry attempts exceeded">>], requests |-> n]
    ELSE LET end == AttemptEnd(script[a + 1]) IN
        IF end.how = "return" THEN [value |-> end.value, requests |-> n + 1]
        ELSE IF IsLastAttempt(a) THEN
            [value |-> ExhaustedError(end.how), requests |-> n + 1]
        ELSE api_request_from(a + 1, n + 1, script)

_make_api_request(script) == api_request_from(0, 0, script)

\* What the upstream will do on each attempt of one call.
Scripts == [1..MaxRetry -> Outcomes]

\* ------------------------------------------------------------ tool dispatcher

\* The attributes and methods an MCPServer instance has: those __init__
\* sets (lines 68-70) and the methods of the class.
ServerAttrs ==
    {"dch_api_url", "platform_api_url", "auth_config",
     "_get_dch_api_headers", "_get_platform_api_headers", "_make_api_request",
     "call_tool", "_get_user_data", "_get_user_orders", "_update_user_settings",
     "_call_lambda_api", "_search_users", "read_resource"}

\* self.<name>: whether the attribute lookup succeeds.
HasAttr(name) == name \in ServerAttrs

\* str(e) of the AttributeError a failed lookup raises.
AttributeError(name) == <<"'MCPServer' object has no attribute '", name, "'">>

\* The names call_tool's if/elif chain tests for (lines 155-164).
RegisteredTools ==
    {"get_user_data", "get_user_orders", "update_user_settings",
     "call_lambda_api", "search_users"}

\* Tool names a caller may send: the registered ones, one the bridge
\* advertises and one nobody knows.
ToolNames == RegisteredTools \cup {"test_connection", "ghost_tool"}

\* The argument mappings a caller may send.
ArgumentSets ==
    [user_id  : {Absent, "", "42"},
     settings : {Absent, EmptyDict, "{\"theme\": \"dark\"}"},
     endpoint : {Absent, "/run"},
     query    : {Absent, "bob"}]

\* The arguments each handler tests with `if not ...` before anything else.
RequiredArgs(tool) ==
    CASE tool = "get_user_data"        -> {"user_id"}
      [] tool = "get_user_orders"      -> {"user_id"}
      [] tool = "update_user_settings" -> {"user_id", "settings"}
      [] tool = "call_lambda_api"      -> {"endpoint"}
      [] tool = "search_users"         -> {"query"}

\* The message of the handler's early return.
RequiredMessage(tool) ==
    CASE tool = "get_user_data"        -> <<"user_id is required">>
      [] tool = "get_user_orders"      -> <<"user_id is required">>
      [] tool = "update_user_settings" -> <<"user_id and settings are required">>
      [] tool = "call_lambda_api"      -> <<"endpoint is required">>
      [] tool = "search_users"         -> <<"query is required">>

\* Mutant: only a missing key is caught, an empty value is let through.
MissingRequiredKeyOnly(tool, args) == \E f \in RequiredArgs(tool) : args[f] = Absent

\* `if not user_id:` and its like: some required argument is missing or falsy.
MissingRequired(tool, args) == \E f \in RequiredArgs(tool) : Falsy(args[f])

\* The first attribute each handler reads after validating (the base URL)
\* and the header method it calls next.
UrlAttr(tool) == IF tool = "call_lambda_api" THEN "api_gateway_url" ELSE "api_base_url"
HeadersAttr(tool) ==
    IF tool = "call_lambda_api" THEN "_get_gateway_headers" ELSE "_get_api_headers"

\* json.dumps(value): the JSON text of a value, not the value.
json_dumps(value) == [json_text_of |-> value]

\* {"content": [{"type": "text", "text": text}]}
Content(text) == [content |-> <<[type |-> "text", text |-> text]>>]

\* What a handler returns once _make_api_request has returned `res`.
HandlerWrap(tool, res) ==
    IF tool = "update_user_settings" /\ "error" \notin DOMAIN res
    THEN Content("Settings updated successfully")
    ELSE Content(json_dumps(res))

\* The statements of a handler before its `await self._make_api_request`:
\* the early return for a missing argument, then the reads of self.<url
\* attribute> and self.<header method>, each of which raises if the server
\* has no such attribute.
HandlerPrelude(tool, args) ==
    IF MissingRequired(tool, args) THEN
        [done |-> TRUE, raised |-> FALSE, value |-> [error |-> RequiredMessage(tool)]]
    ELSE IF ~HasAttr(UrlAttr(tool)) THEN
        [done |-> TRUE, raised |-> TRUE, value |-> AttributeError(UrlAttr(tool))]
    ELSE IF ~HasAttr(HeadersAttr(tool)) THEN
        [done |-> TRUE, raised |-> TRUE, value |-> AttributeError(HeadersAttr(tool))]
    ELSE [done |-> FALSE, raised |-> FALSE, value |-> Absent]

\* One handler (_get_user_data and its four siblings), run against an
\* upstream that follows `script`: it returns a value or raises, having
\* made `requests` upstream requests.
Handler(tool, args, script) ==
    LET pre == HandlerPrelude(tool, args) IN
    IF pre.done THEN
        [raised |-> pre.raised, value |-> pre.value, requests |-> 0]
    ELSE LET r == _make_api_request(script) IN
        [raised |-> FALSE, value |-> HandlerWrap(tool, r.value), requests |-> r.requests]

\* Mutant: the chain ends in a handler instead of the unknown-tool branch.
call_tool_body_no_else(tool_name, arguments, script) ==
    IF tool_name \in RegisteredTools THEN Handler(tool_name, arguments, script)
    ELSE Handler("search_users", arguments, script)

\* The try block of call_tool (lines 155-166).
call_tool_body(tool_name, arguments, script) ==
    IF tool_name \in RegisteredTools THEN Handler(tool_name, arguments, script)
    ELSE [raised |-> FALSE, value |-> [error |-> <<"Unknown tool: ", tool_name>>],
          requests |-> 0]

\* Mutant: call_tool without its except clause.
CatchNothing(outcome) == outcome

\* `except Exception as e: return {"error": str(e)}` (lines 167-169).
CatchAll(outcome) ==
    IF outcome.raised
    THEN [raised |-> FALSE, value |-> [error |-> outcome.value], requests |-> outcome.requests]
    ELSE outcome

\* MCPServer.call_tool.
call_tool(tool_name, arguments, script) ==
    CatchAll(call_tool_body(tool_name, arguments, script))

\* The upstream behaviours that matter to one tool call: the upstream is
\* only consulted by a handler that gets as far as its request.
NoScript == [i \in 1..MaxRetry |-> Outcome("exception", 0, "", "-")]

UpstreamScripts(tool_name, arguments) ==
    IF tool_name \in RegisteredTools /\ ~HandlerPrelude(tool_name, arguments).done
    THEN Scripts ELSE {NoScript}

\* ------------------------------------------------------------ resource reader

\* The URIs a caller may ask for.
Uris ==
    {"webapp://current-state/42", "webapp://current-state/", "webapp://current-state/a/7",
     "other://current-state/42", "webapp://profile/42", ""}

\* uri.startswith("webapp://current-state/")
StartsWithCurrentState(uri) ==
    uri \in {"webapp://current-state/42", "webapp://current-state/",
             "webapp://current-state/a/7"}

\* uri.split("/")[-1]
LastSegment(uri) ==
    CASE uri = "webapp://current-state/42"  -> "42"
      [] uri = "webapp://current-state/"    -> ""
      [] uri = "webapp://current-state/a/7" -> "7"
      [] uri = "other://current-state/42"   -> "42"
      [] uri = "webapp://profile/42"        -> "42"
      [] uri = ""                           -> ""

\* MCPServer.read_resource against an upstream that follows `script`.
read_resource(uri, script) ==
    IF StartsWithCurrentState(uri) THEN
        IF ~HasAttr("api_base_url") THEN
            [raised |-> FALSE, requests |-> 0,
             value |-> [content |-> json_dumps([error |-> AttributeError("api_base_url")])]]
        ELSE IF ~HasAttr("_get_api_headers") THEN
            [raised |-> FALSE, requests |-> 0,
             value |-> [content |-> json_dumps([error |-> AttributeError("_get_api_headers")])]]
        ELSE LET r == _make_api_request(script) IN
            [raised |-> FALSE, requests |-> r.requests,
             value |-> [content |-> json_dumps(r.value)]]
    ELSE [raised |-> FALSE, requests |-> 0,
          value |-> [content |-> json_dumps([error |-> <<"Resource not found">>])]]

ResourceScripts(uri) ==
    IF StartsWithCurrentState(uri) /\ HasAttr("api_base_url") /\ HasAttr("_get_api_headers")
    THEN Scripts ELSE {NoScript}

\* ---------------------------------------------------------------- HTTP adapter

VARIABLE
    http   \* the last HTTP exchange the server completed

NoExchange ==
    [endpoint |-> Absent, token |-> Absent, name |-> Absent, arguments |-> Absent,
     uri |-> Absent, status |-> 0, body |-> Absent, dispatched |-> FALSE, requests |-> 0]

\* str.lower() of the tokens used here.
Lower(t) == IF t = "S3CRET" THEN "s3cret" ELSE t

\* Mutant: the comparison ignores case.
TokenMismatchIgnoringCase(credentials) == Lower(credentials) # Lower(mcp_server_token)

\* credentials.credentials != mcp_server.auth_config.mcp_server_token
TokenMismatch(credentials) == credentials # mcp_server_token

\* authenticate_mcp_request: raises HTTPException(401) or returns the token.
authenticate_mcp_request(credentials) ==
    IF TokenMismatch(credentials)
    THEN [raised |-> TRUE, status |-> 401, detail |-> "Invalid MCP server token"]
    ELSE [raised |-> FALSE, status |-> 200, detail |-> credentials]

\* The framework's answer to a handler outcome: the value as the body of a
\* 200, or a 500 for an exception that escaped the endpoint.
Respond(outcome) ==
    IF outcome.raised THEN [status |-> 500, body |-> [detail |-> "Internal Server Error"]]
    ELSE [status |-> 200, body |-> outcome.value]

\* POST /tools/call
call_tool_endpoint(token, name, arguments, script) ==
    LET auth == authenticate_mcp_request(token) IN
    /\ http' =
         IF auth.raised THEN
            [endpoint |-> "/tools/call", token |-> token, name |-> name,
             arguments |-> arguments, uri |-> Absent, status |-> auth.status,
             body |-> [detail |-> auth.detail], dispatched |-> FALSE, requests |-> 0]
         ELSE LET out == call_tool(name, arguments, script) IN
            [endpoint |-> "/tools/call", token |-> token, name |-> name,
             arguments |-> arguments, uri |-> Absent, status |-> Respond(out).status,
             body |-> Respond(out).body, dispatched |-> TRUE, requests |-> out.requests]
    /\ UNCHANGED <<max_retry_attempts, mcp_server_token>>

\* POST /resources/read
read_resource_endpoint(token, uri, script) ==
    LET auth == authenticate_mcp_request(token) IN
    /\ http' =
         IF auth.raised THEN
            [endpoint |-> "/resources/read", token |-> token, name |-> Absent,
             arguments |-> Absent, uri |-> uri, status |-> auth.status,
             body |-> [detail |-> auth.detail], dispatched |-> FALSE, requests |-> 0]
         ELSE LET out == read_resource(uri, script) IN
            [endpoint |-> "/resources/read", token |-> token, name |-> Absent,
             arguments |-> Absent, uri |-> uri, status |-> Respond(out).status,
             body |-> Respond(out).body, dispatched |-> TRUE, requests |-> out.requests]
    /\ UNCHANGED <<max_retry_attempts, mcp_server_token>>

\* ------------------------------------------------------------- stream adapter

VARIABLES
    pc,         \* where main() is: "reading", "forwarding" or "exited"
    consumed,   \* the lines taken from stdin so far, in order
    request,    \* the local variable `request` (it outlives the iteration)
    stdout,     \* the lines written to stdout, in order
    wroteFor,   \* for each line of stdout, the index of the input line it answers
    stderr,     \* the lines written to stderr, in order
    forwards    \* the HTTP requests sent to the HTTP adapter, in order

Methods ==
    {"initialize", "notifications/initialized", "tools/list", "tools/call",
     "resources/list", "resources/read", "bogus/method"}

ForwardMethods == {"tools/call", "resources/read"}

\* The ids a message may carry.
Ids == {"id-1", "id-2"}

\* The params member of a message: missing, not a mapping, or a mapping
\* with the members the bridge looks at.
Params(type, name, arguments, uri) ==
    [type |-> type, name |-> name, arguments |-> arguments, uri |-> uri]

NoParams == Params("absent", Absent, Absent, Absent)

\* The params of a tools/call and of a resources/read.
CallParams == Params("dict", "get_user_data", "{\"user_id\": \"42\"}", Absent)
ReadParams == Params("dict", Absent, Absent, "webapp://current-state/42")

ParamValues == {NoParams, Params("list", Absent, Absent, Absent), CallParams, ReadParams}

\* A parsed JSON document: an object with the members the bridge looks at
\* (Absent for a missing member), or a document that is not an object.
Doc(type, method, id, params) ==
    [type |-> type, method |-> method, id |-> id, params |-> params]

Unbound == Doc("unbound", Absent, Absent, NoParams)

\* The lines stdin may deliver: `form` says what the text is.
Line(form, method, id, params) ==
    [form |-> form, method |-> method, id |-> id, params |-> params]

Lines ==
    {Line(f, Absent, Absent, NoParams) : f \in {"blank", "not-json", "too-deep", "list"}}
    \cup {Line("object", m, i, NoParams) :
            m \in Methods \ ForwardMethods, i \in Ids \cup {Absent}}
    \cup {Line("object", "tools/call", i, p) :
            i \in Ids \cup {Absent}, p \in ParamValues \ {ReadParams}}
    \cup {Line("object", "resources/read", i, p) :
            i \in Ids \cup {Absent}, p \in ParamValues \ {CallParams}}

\* line.strip() is empty.
IsBlank(line) == line.form = "blank"

\* json.loads(line): the document, or the exception it raises.  A text
\* nested deeper than the interpreter's recursion limit raises
\* RecursionError, which is not a JSONDecodeError.
json_loads(line) ==
    CASE line.form = "not-json" -> [raised |-> "JSONDecodeError", value |-> Unbound]
      [] line.form = "too-deep" -> [raised |-> "RecursionError", value |-> Unbound]
      [] line.form = "list"     -> [raised |-> "", value |-> Doc("list", Absent, Absent, NoParams)]
      [] line.form = "object"   ->
            [raised |-> "", value |-> Doc("dict", line.method, line.id, line.params)]

\* d.get(key) of a dict: None for a missing key.
Get(v) == IF v = Absent THEN None ELSE v

\* A line of stdout: the keys of the JSON object written and their values
\* (result names what the result is; code 0 and message <<>> fill an
\* object that has no error member).
Response(keys, id, res, code, message) ==
    [keys |-> keys, jsonrpc |-> "2.0", id |-> id, result |-> res,
     code |-> code, message |-> message]

\* Mutant: a result response that drops the request's id.
ResultResponseNoId(id, res) == Response({"jsonrpc", "result"}, Absent, res, 0, <<>>)

ResultResponse(id, res) == Response({"jsonrpc", "id", "result"}, id, res, 0, <<>>)

\* Mutant: an error response that carries a result member as well.
ErrorResponseWithResult(id, code, message) ==
    Response({"jsonrpc", "id", "result", "error"}, id, <<>>, code, message)

ErrorResponse(id, code, message) ==
    Response({"jsonrpc", "id", "error"}, id, <<>>, code, message)

\* Lines 160-163: the parse-error object has no id member.
ParseErrorResponse ==
    Response({"jsonrpc", "error"}, Absent, <<>>, -32700, <<"Parse error: ", "JSONDecodeError">>)

\* Line 250: request.get("id") if 'request' in locals() else None.  With
\* `request` bound to a document that is not a dict the lookup raises.
RecoveredId(req) ==
    IF req.type = "unbound" THEN [raised |-> FALSE, id |-> None]
    ELSE IF req.type = "dict" THEN [raised |-> FALSE, id |-> Get(req.id)]
    ELSE [raised |-> TRUE, id |-> None]

\* Mutant: the handler writes its error response twice.
ExceptHandlerTwice(req, msg) ==
    LET rec == RecoveredId(req) IN
    [out  |-> IF rec.raised THEN <<>>
              ELSE <<ErrorResponse(rec.id, -1, msg), ErrorResponse(rec.id, -1, msg)>>,
     err  |-> <<<<"Error processing request: ", msg>>>>,
     next |-> IF rec.raised THEN "fatal" ELSE "read"]

\* The handler of lines 246-253 for exception text `msg`: what it writes,
\* and whether it raises itself (which ends the loop).
ExceptHandler(req, msg) ==
    LET rec == RecoveredId(req) IN
    [out  |-> IF rec.raised THEN <<>> ELSE <<ErrorResponse(rec.id, -1, msg)>>,
     err  |-> <<<<"Error processing request: ", msg>>>>,
     next |-> IF rec.raised THEN "fatal" ELSE "read"]

\* str(e) of the AttributeError of x.get on something that is not a dict.
NoGet(type) == <<"'", type, "' object has no attribute 'get'">>

\* One iteration of the for loop (lines 151-253) on `line`, with `request`
\* bound to `req` from earlier iterations, up to the point where it either
\* is over or calls the HTTP adapter: what is written to stdout and stderr,
\* the new binding of `request`, and what comes next ("read" the next
\* line, "forward" to the HTTP adapter, "fatal": an exception left the loop).
Iteration(line, req) ==
    IF IsBlank(line) THEN
        [out |-> <<>>, err |-> <<>>, request |-> req, next |-> "read"]
    ELSE LET parsed == json_loads(line) IN
    IF parsed.raised = "JSONDecodeError" THEN
        [out |-> <<ParseErrorResponse>>, err |-> <<>>, request |-> req, next |-> "read"]
    ELSE IF parsed.raised # "" THEN
        LET h == ExceptHandler(req, <<parsed.raised>>) IN
        [out |-> h.out, err |-> h.err, request |-> req, next |-> h.next]
    ELSE LET r == parsed.value IN
    IF r.type # "dict" THEN
        \* request.get("method") raises AttributeError (line 167)
        LET h == ExceptHandler(r, NoGet(r.type)) IN
        [out |-> h.out, err |-> h.err, request |-> r, next |-> h.next]
    ELSE LET method == Get(r.method)
             request_id == Get(r.id)
             processing == <<"Processing: ", method>>
         IN
    IF method = "initialize" THEN
        [out |-> <<ResultResponse(request_id, <<"initialize">>)>>,
         err |-> <<processing>>, request |-> r, next |-> "read"]
    ELSE IF method = "notifications/initialized" THEN
        [out |-> <<>>, err |-> <<processing, <<"MCP initialized successfully">>>>,
         request |-> r, next |-> "read"]
    ELSE IF method = "tools/list" THEN
        [out |-> <<ResultResponse(request_id, <<"list_tools">>)>>,
         err |-> <<processing>>, request |-> r, next |-> "read"]
    ELSE IF method = "tools/call" THEN
        IF r.params.type \notin {"absent", "dict"} THEN
            \* params.get("name") raises AttributeError (line 206)
            LET h == ExceptHandler(r, NoGet(r.params.type)) IN
            [out |-> h.out, err |-> <<processing>> \o h.err, request |-> r, next |-> h.next]
        ELSE
            [out |-> <<>>,
             err |-> <<processing, <<"Calling tool: ", Get(r.params.name)>>>>,
             request |-> r, next |-> "forward"]
    ELSE IF method = "resources/list" THEN
        [out |-> <<ResultResponse(request_id, <<"list_resources">>)>>,
         err |-> <<processing>>, request |-> r, next |-> "read"]
    ELSE IF method = "resources/read" THEN
        IF r.params.type \notin {"absent", "dict"} THEN
            \* params.get("uri") raises AttributeError (line 229)
            LET h == ExceptHandler(r, NoGet(r.params.type)) IN
            [out |-> h.out, err |-> <<processing>> \o h.err, request |-> r, next |-> h.next]
        ELSE
            [out |-> <<>>, err |-> <<processing>>, request |-> r, next |-> "forward"]
    ELSE
        [out |-> <<ErrorResponse(request_id, -32601, <<"Method not found: ", method>>)>>,
         err |-> <<processing>>, request |-> r, next |-> "read"]

\* MCPHTTPBridge.list_tools: the names of the tools the bridge advertises in
\* its answer to tools/list.
list_tools ==
    {"get_user_data", "get_user_orders", "update_user_settings", "test_connection"}

\* What the HTTP adapter (or the network) does with a forwarded request:
\* a 2xx whose body parses, an HTTP error status (with a body that is
\* UTF-8 text, or one that is not), no connection, or anything else
\* urlopen / json.loads may raise.
Replies ==
    {[how |-> "json",             text |-> "{\"content\": [...]}"],
     [how |-> "http-error",       text |-> "401"],
     [how |-> "http-error-bytes", text |-> "502"],
     [how |-> "url-error",        text |-> "Connection refused"],
     [how |-> "exception",        text |-> "timed out"]}

\* No reply yet: the request is in flight.
Pending == [how |-> "pending", text |-> ""]

\* MCPHTTPBridge.make_request: the parsed body, or an {"error": ...} dict.
\* Line 46 decodes the body of an HTTP error inside the except clause, so
\* a body that is not UTF-8 raises out of make_request ("raise").
make_request(reply) ==
    CASE reply.how = "json"             -> <<"json", reply.text>>
      [] reply.how = "http-error"       -> <<"error", "HTTP ", reply.text, ": ", "body">>
      [] reply.how = "http-error-bytes" -> <<"raise", "UnicodeDecodeError">>
      [] reply.how = "url-error"        -> <<"error", "Connection error: ", reply.text>>
      [] reply.how = "exception"        -> <<"error", "Request failed: ", reply.text>>

\* MCPHTTPBridge.call_tool / read_resource: the request sent for `req`.
ForwardOf(req, n) ==
    IF req.method = "tools/call"
    THEN [line |-> n, path |-> "/tools/call", name |-> Get(req.params.name),
          arguments |-> IF req.params.arguments = Absent THEN EmptyDict
                        ELSE req.params.arguments,
          uri |-> Absent, reply |-> Pending]
    ELSE [line |-> n, path |-> "/resources/read", name |-> Absent,
          arguments |-> Absent, uri |-> Get(req.params.uri), reply |-> Pending]

Startup == <<<<"MCP Bridge starting (standalone version)...">>, <<"Server URL: ", "http://localhost:3001">>>>
Shutdown == <<"MCP Bridge shutting down">>

StreamInit ==
    /\ pc = "reading"
    /\ consumed = <<>>
    /\ request = Unbound
    /\ stdout = <<>>
    /\ wroteFor = <<>>
    /\ stderr = Startup
    /\ forwards = <<>>

serverVars == <<max_retry_attempts, mcp_server_token, http>>
streamVars == <<pc, consumed, request, stdout, wroteFor, stderr, forwards>>
vars == <<max_retry_attempts, mcp_server_token, http, callState, attempt, invocations,
          served, result, pc, consumed, request, stdout, wroteFor, stderr, forwards>>

\* `for line in sys.stdin` delivers `line`, and the iteration runs until
\* it is over or waits for the HTTP adapter.
ReadLine(line) ==
    /\ pc = "reading"
    /\ Len(consumed) < MaxLines
    /\ LET it == Iteration(line, request)
           n  == Len(consumed) + 1
       IN
       /\ consumed' = Append(consumed, line)
       /\ request' = it.request
       /\ stdout' = stdout \o it.out
       /\ wroteFor' = wroteFor \o [i \in 1..Len(it.out) |-> n]
       /\ stderr' = stderr \o it.err \o
                    (IF it.next = "fatal" THEN <<<<"Fatal error: ">>, Shutdown>> ELSE <<>>)
       /\ forwards' = IF it.next = "forward"
                      THEN Append(forwards, ForwardOf(it.request, n)) ELSE forwards
       /\ pc' = CASE it.next = "read"    -> "reading"
                  [] it.next = "forward" -> "forwarding"
                  [] it.next = "fatal"   -> "exited"
    /\ UNCHANGED <<serverVars, clientVars>>

\* The forwarded request comes back; lines 212-217 / 231-236 write the response.
\* If make_request raised, the handler of lines 246-253 answers instead.
ForwardReturns(reply) ==
    /\ pc = "forwarding"
    /\ LET res == make_request(reply)
           h   == ExceptHandler(request, <<res[2]>>)
       IN IF res[1] = "raise"
          THEN /\ stdout' = stdout \o h.out
               /\ wroteFor' = wroteFor \o [i \in 1..Len(h.out) |-> Len(consumed)]
               /\ stderr' = stderr \o h.err
          ELSE /\ stdout' = Append(stdout, ResultResponse(Get(request.id), res))
               /\ wroteFor' = Append(wroteFor, Len(consumed))
               /\ UNCHANGED stderr
    /\ forwards' = [forwards EXCEPT ![Len(forwards)].reply = reply]
    /\ pc' = "reading"
    /\ UNCHANGED <<consumed, request, serverVars, clientVars>>

\* stdin is at end-of-file: the for loop ends, the finally clause runs.
EndOfInput ==
    /\ pc = "reading"
    /\ stderr' = Append(stderr, Shutdown)
    /\ pc' = "exited"
    /\ UNCHANGED <<consumed, request, stdout, wroteFor, forwards, serverVars, clientVars>>

\* KeyboardInterrupt, while waiting for a line or for the HTTP adapter.
Interrupt ==
    /\ pc \in {"reading", "forwarding"}
    /\ stderr' = stderr \o <<<<"Bridge interrupted">>, Shutdown>>
    /\ pc' = "exited"
    /\ UNCHANGED <<consumed, request, stdout, wroteFor, forwards, serverVars, clientVars>>

\* --------------------------------------------------------- the specifications

\* The stdio bridge on its own.
InitStream ==
    /\ StreamInit
    /\ max_retry_attempts = 3
    /\ mcp_server_token = "s3cret"
    /\ http = NoExchange
    /\ ClientInit

NextStream ==
    \/ \E line \in Lines : ReadLine(line)
    \/ \E reply \in Replies : ForwardReturns(reply)
    \/ EndOfInput
    \/ Interrupt

SpecStream == InitStream /\ [][NextStream]_vars

\* One call of the upstream client against an upstream that answers anything.
InitClient ==
    /\ AuthConfigInit
    /\ ClientInit
    /\ http = NoExchange
    /\ StreamInit

NextClient ==
    \/ \E c \in ClientCalls, o \in Outcomes :
          Attempt(c, o) /\ UNCHANGED <<http, streamVars>>
    \/ \E c \in ClientCalls : FallThrough(c) /\ UNCHANGED <<http, streamVars>>

SpecClient == InitClient /\ [][NextClient]_vars

\* The HTTP server: authenticated exchanges, one after the other.
InitServer ==
    /\ AuthConfigInit
    /\ http = NoExchange
    /\ ClientInit
    /\ StreamInit

NextServer ==
    \/ \E token \in Tokens, name \in ToolNames, arguments \in ArgumentSets :
          \E script \in UpstreamScripts(name, arguments) :
             call_tool_endpoint(token, name, arguments, script)
             /\ UNCHANGED <<clientVars, streamVars>>
    \/ \E token \in Tokens, uri \in Uris :
          \E script \in ResourceScripts(uri) :
             read_resource_endpoint(token, uri, script)
             /\ UNCHANGED <<clientVars, streamVars>>

SpecServer == InitServer /\ [][NextServer]_vars

\* Several calls of the request operation at once: call_tool_endpoint is a
\* coroutine per inbound request, and each `await` of _make_api_request lets
\* the event loop run another call, so the attempts of the calls interleave.
ConcurrentCalls == {1, 2}

\* What the upstream does to the attempts of the concurrent calls.
ConcurrentOutcomes ==
    {Outcome("timeout", 0, "", "-"),
     Outcome("response", 401, "", "-"),
     Outcome("response", 500, "plain text", "ok"),
     Outcome("response", 200, "{\"id\": 42}", "-")}

\* Each call starts with its own frame: attempt is a local of the coroutine.
ConcurrentInit ==
    /\ callState = [c \in ConcurrentCalls |-> "looping"]
    /\ attempt = [c \in ConcurrentCalls |-> 0]
    /\ invocations = [c \in ConcurrentCalls |-> 0]
    /\ served = [c \in ConcurrentCalls |-> <<>>]
    /\ result = [c \in ConcurrentCalls |-> Absent]

InitConcurrent ==
    /\ AuthConfigInit
    /\ ConcurrentInit
    /\ http = NoExchange
    /\ StreamInit

NextConcurrent ==
    \/ \E c \in ConcurrentCalls, o \in ConcurrentOutcomes :
          Attempt(c, o) /\ UNCHANGED <<http, streamVars>>
    \/ \E c \in ConcurrentCalls : FallThrough(c) /\ UNCHANGED <<http, streamVars>>

SpecConcurrent == InitConcurrent /\ [][NextConcurrent]_vars

\* All three together.
Init == InitServer
Next == NextStream \/ NextClient \/ NextServer
Spec == Init /\ [][Next]_vars

\* ------------------------------------------------------------------- claims

\* The answers on stdout to input line k.
AnswersTo(k) == {j \in 1..Len(stdout) : wroteFor[j] = k}

\* Input line k has been dealt with: a later line was read, or the loop is
\* back at the read.
Processed(k) == k < Len(consumed) \/ pc = "reading"

\* C1 (as claimed): every processed line that is a JSON-RPC message with an
\* id, whatever its method, has exactly one response on stdout and it carries
\* that id; every message without an id has no response.
C1_IdAnsweredOnceNoIdNever ==
    \A k \in 1..Len(consumed) :
        (Processed(k) /\ consumed[k].form = "object") =>
            IF consumed[k].id # Absent
            THEN /\ Cardinality(AnswersTo(k)) = 1
                 /\ \A j \in AnswersTo(k) :
                        "id" \in stdout[j].keys /\ stdout[j].id = consumed[k].id
            ELSE AnswersTo(k) = {}

\* The processing of a line raises: the text is nested too deep to parse,
\* the document is not an object, or a forwarding method has params that
\* are not a mapping.
LineRaises(line) ==
    \/ line.form \in {"too-deep", "list"}
    \/ /\ line.form = "object"
       /\ line.method \in ForwardMethods
       /\ line.params.type \notin {"absent", "dict"}

\* C2 (as claimed): no line ends the loop, and a line whose processing
\* raises is answered by one JSON-RPC error carrying that line's id, or null
\* when the line has none that can be recovered.
C2_NoLineEndsTheLoop ==
    [][Len(consumed') = Len(consumed) + 1 =>
        LET line == consumed'[Len(consumed')] IN
        /\ pc' # "exited"
        /\ LineRaises(line) =>
            /\ Len(stdout') = Len(stdout) + 1
            /\ stdout'[Len(stdout')].keys = {"jsonrpc", "id", "error"}
            /\ stdout'[Len(stdout')].id = Get(line.id)]_vars

\* The upstream answered 401.
Is401(o) == o.conn = "response" /\ o.status = 401

\* The upstream answered 200 and the body arrived.
Delivered200(o) ==
    o.conn = "response" /\ o.status = 200 /\ o.read \in {"-", "ok"}

\* The success payload of a delivered 200.
Payload(o) ==
    CASE o.body = "{\"id\": 42}"            -> [id |-> 42]
      [] o.body = "{\"error\": \"denied\"}"   -> [error |-> <<"denied">>]
      [] OTHER                              -> [data |-> o.body]

AuthenticationExhausted == [error |-> <<"Authentication failed after all retry attempts">>]

\* C3: with maxRetryAttempts = M >= 1, a call whose upstream answered 401
\* on the first N-1 attempts and 200 on the Nth (N <= M) has returned the
\* payload after exactly N attempts; a call whose upstream answers 401 every
\* time goes on up to the Mth attempt and then has returned the
\* authentication-exhausted error after exactly M attempts.
C3_RetryOn401 ==
    \A c \in ClientCalls :
        LET h == served[c]
            n == Len(h)
            M == max_retry_attempts
        IN M >= 1 =>
            /\ (/\ n >= 1
                /\ \A i \in 1..(n - 1) : Is401(h[i])
                /\ Delivered200(h[n]))
               => /\ n <= M
                  /\ callState[c] = "returned"
                  /\ result[c] = Payload(h[n])
                  /\ invocations[c] = n
            /\ (\A i \in 1..n : Is401(h[i]))
               => /\ n <= M
                  /\ invocations[c] = n
                  /\ n < M => callState[c] = "looping"
                  /\ n = M => /\ callState[c] = "returned"
                              /\ result[c] = AuthenticationExhausted

\* C3's case: two 401s, then a 200, with three attempts allowed.
C3_Witness ==
    /\ max_retry_attempts = 3
    /\ callState[1] = "returned"
    /\ Len(served[1]) = 3
    /\ Is401(served[1][1]) /\ Is401(served[1][2]) /\ Delivered200(served[1][3])
    /\ invocations[1] = 3

\* The upstream answered a status >= 400 other than 401.
IsOtherError(o) == o.conn = "response" /\ o.status >= 400 /\ o.status # 401

\* C4 (as claimed): an attempt that receives a status >= 400 other than 401
\* is the call's last, and the call has returned the upstream error for that
\* status, whether or not the body of the error response could be read.
C4_ErrorStatusNotRetried ==
    \A c \in ClientCalls : \A i \in 1..Len(served[c]) :
        IsOtherError(served[c][i]) =>
            /\ i = Len(served[c])
            /\ callState[c] = "returned"
            /\ result[c] = [error |-> <<"API request failed: ", StatusStr(served[c][i].status)>>]

\* The attempt failed in one of the three retryable ways: a 401, a timeout,
\* or a transport exception (on connecting or while the body was read).
RetryableFailure(o) ==
    \/ Is401(o)
    \/ o.conn \in {"timeout", "exception"}
    \/ o.conn = "response" /\ o.read \in {"timeout", "exception"}

\* C5: whatever the upstream does, a call never makes more than
\* maxRetryAttempts attempts; every attempt but the last one made was a
\* retryable failure of whichever kind; after a retryable failure on a
\* non-final attempt the call is about to make the next attempt; and the
\* call has returned as soon as an attempt was not a retryable failure or
\* was the maxRetryAttempts-th.
C5_SharedRetryBudget ==
    \A c \in ClientCalls :
        LET h == served[c]
            n == Len(h)
            M == max_retry_attempts
        IN /\ invocations[c] = n
           /\ n >= 1 => n <= M
           /\ M <= 0 => n = 0
           /\ \A i \in 1..(n - 1) : RetryableFailure(h[i])
           /\ (n >= 1 /\ ~RetryableFailure(h[n])) => callState[c] = "returned"
           /\ (n >= 1 /\ RetryableFailure(h[n]) /\ n < M) =>
                 callState[c] = "looping" /\ attempt[c] = n
           /\ (n >= 1 /\ n = M) => callState[c] = "returned"

\* C5's case: a timeout, a transport exception and a 401, one per attempt.
C5_Witness ==
    /\ max_retry_attempts = 3
    /\ callState[1] = "returned"
    /\ Len(served[1]) = 3
    /\ served[1][1].conn = "timeout"
    /\ served[1][2].conn = "exception"
    /\ Is401(served[1][3])

\* The last exchange was a tool call that reached the dispatcher.
Dispatched == http.endpoint = "/tools/call" /\ http.dispatched

\* The body is a content envelope / a bare error envelope.
IsContent(body) == DOMAIN body = {"content"}
IsBareError(body) == DOMAIN body = {"error"}

\* One of the tool's required arguments is missing or empty.
LacksRequired(tool, args) ==
    \/ tool \in {"get_user_data", "get_user_orders", "update_user_settings"}
       /\ args.user_id \in {Absent, ""}
    \/ tool = "update_user_settings" /\ args.settings \in {Absent, EmptyDict}
    \/ tool = "call_lambda_api" /\ args.endpoint \in {Absent, ""}
    \/ tool = "search_users" /\ args.query \in {Absent, ""}

\* C6 (as claimed): a registered tool called with all its required
\* arguments makes at least one upstream request and answers with a content
\* envelope (stated for a configuration that allows at least one attempt).
C6_HandlerCallsUpstream ==
    (Dispatched /\ http.name \in RegisteredTools
        /\ ~LacksRequired(http.name, http.arguments)
        /\ max_retry_attempts >= 1)
    => (http.requests >= 1 /\ http.status = 200 /\ IsContent(http.body))

\* The messages that name each requirement.
RequirementMessages(tool) ==
    IF tool = "update_user_settings" THEN {<<"user_id and settings are required">>}
    ELSE IF tool = "call_lambda_api" THEN {<<"endpoint is required">>}
    ELSE IF tool = "search_users" THEN {<<"query is required">>}
    ELSE {<<"user_id is required">>}

\* C7: a registered tool called without one of its required arguments (or
\* with an empty value for it) answers with a bare error envelope naming the
\* requirement, and no upstream request was made.
C7_MissingArgumentNoUpstream ==
    (Dispatched /\ http.name \in RegisteredTools
        /\ LacksRequired(http.name, http.arguments))
    => /\ http.status = 200
       /\ IsBareError(http.body)
       /\ http.body.error \in RequirementMessages(http.name)
       /\ http.requests = 0

\* C7's case: update_user_settings with a user_id and empty settings.
C7_Witness ==
    /\ Dispatched
    /\ http.name = "update_user_settings"
    /\ http.arguments.user_id = "42"
    /\ http.arguments.settings = EmptyDict
    /\ IsBareError(http.body)

\* C8: a tool name outside the registry is answered, as a normal result,
\* with exactly {error: "Unknown tool: <name>"}, and no upstream request
\* was made.
C8_UnknownTool ==
    (Dispatched /\ http.name \notin RegisteredTools)
    => /\ http.status = 200
       /\ http.body = [error |-> <<"Unknown tool: ", http.name>>]
       /\ http.requests = 0

\* C8's case: ghost_tool was dispatched.
C8_Witness ==
    /\ Dispatched
    /\ http.name = "ghost_tool"
    /\ http.status = 200

\* C9: whatever the tool name and the arguments, dispatch ends in a
\* returned envelope, content or error and not both; no fault reaches the
\* endpoint (which would answer 500).
C9_AlwaysOneEnvelope ==
    Dispatched =>
        /\ http.status = 200
        /\ IsContent(http.body) \/ IsBareError(http.body)

\* C9's case: a handler raised inside dispatch (the arguments were all
\* there, so it went past its validation).
C9_Witness ==
    /\ Dispatched
    /\ http.name = "get_user_data"
    /\ http.arguments.user_id = "42"
    /\ http.status = 200

\* The envelope the dispatcher or the resource reader returns for the
\* request of the last exchange.
EnvelopesFor(h) ==
    IF h.endpoint = "/tools/call"
    THEN {call_tool(h.name, h.arguments, sc).value : sc \in UpstreamScripts(h.name, h.arguments)}
    ELSE {read_resource(h.uri, sc).value : sc \in ResourceScripts(h.uri)}

\* C10: on POST /tools/call and POST /resources/read the dispatcher or the
\* resource reader ran if and only if the presented token is the configured
\* one; any other token got the unauthorized fault and caused no upstream
\* request; with the right token the response is the envelope, unchanged.
C10_BearerTokenGate ==
    http.endpoint \in {"/tools/call", "/resources/read"} =>
        /\ http.dispatched <=> (http.token = mcp_server_token)
        /\ http.token # mcp_server_token =>
              /\ http.status = 401
              /\ http.body = [detail |-> "Invalid MCP server token"]
              /\ http.requests = 0
        /\ http.token = mcp_server_token =>
              /\ http.status = 200
              /\ http.body \in EnvelopesFor(http)

\* C10's case: a token that differs from the configured one only in case.
C10_Witness ==
    /\ http.endpoint = "/tools/call"
    /\ http.token = "S3CRET"
    /\ http.status = 401
    /\ ~http.dispatched

\* The last exchange was a resource read that reached read_resource.
ResourceRead == http.endpoint = "/resources/read" /\ http.dispatched

NotFoundContent == [content |-> json_dumps([error |-> <<"Resource not found">>])]

\* C11 (as claimed): a read of <scheme>://current-state/<id> makes the
\* upstream client call for that id (at least one upstream request, stated
\* for a configuration that allows one attempt) and the content is not the
\* not-found payload; a read of a URI of another form answers the literal
\* not-found content and makes no upstream request.
C11_ResourceReadCallsUpstream ==
    ResourceRead =>
        /\ (http.uri = "webapp://current-state/42" /\ max_retry_attempts >= 1)
              => (http.requests >= 1 /\ http.status = 200 /\ http.body # NotFoundContent)
        /\ http.uri \in {"webapp://profile/42", "other://current-state/42", ""}
              => (http.body = NotFoundContent /\ http.requests = 0)

\* C12 (as claimed): every processed line that is not valid JSON has
\* exactly one response, a JSON-RPC error with code -32700 whose id member
\* is present and null, and the loop has gone back to reading.
C12_ParseErrorWithNullId ==
    \A k \in 1..Len(consumed) :
        (Processed(k) /\ consumed[k].form = "not-json") =>
            /\ Cardinality(AnswersTo(k)) = 1
            /\ \A j \in AnswersTo(k) :
                  /\ "error" \in stdout[j].keys
                  /\ stdout[j].code = -32700
                  /\ "id" \in stdout[j].keys
                  /\ stdout[j].id = None
            /\ k = Len(consumed) => pc = "reading"

\* The forwards made for input line k.
ForwardsFor(k) == {f \in 1..Len(forwards) : forwards[f].line = k}

\* C13 (as claimed, for tools/call lines whose params are missing or a
\* mapping): the line caused exactly one HTTP request, to /tools/call with
\* its name and arguments; and once processed it has exactly one response,
\* with the line's id, whose result is what the forward returned: the parsed
\* body, or an {error: ...} mapping when the request failed.
C13_ToolsCallForwarded ==
    \A k \in 1..Len(consumed) :
        (/\ consumed[k].form = "object"
         /\ consumed[k].method = "tools/call"
         /\ consumed[k].params.type \in {"absent", "dict"})
        => /\ Cardinality(ForwardsFor(k)) = 1
           /\ \A f \in ForwardsFor(k) :
                 /\ forwards[f].path = "/tools/call"
                 /\ forwards[f].name = Get(consumed[k].params.name)
                 /\ forwards[f].arguments =
                       IF consumed[k].params.arguments = Absent THEN EmptyDict
                       ELSE consumed[k].params.arguments
                 /\ Processed(k) =>
                       /\ Cardinality(AnswersTo(k)) = 1
                       /\ \A j \in AnswersTo(k) :
                             /\ stdout[j].keys = {"jsonrpc", "id", "result"}
                             /\ stdout[j].id = Get(consumed[k].id)
                             /\ IF forwards[f].reply.how = "json"
                                THEN stdout[j].result = <<"json", forwards[f].reply.text>>
                                ELSE stdout[j].result[1] = "error"

TimeoutExhausted == [error |-> <<"Request timeout after all retry attempts">>]

\* The transport-exhausted error carries the text of the last exception.
TransportExhausted == [error |-> <<"Request failed: ", ExcText>>]

\* The kind of a retryable failure: by status 401, by timing out, or by
\* raising another exception (on connecting or while the body was read).
FailureKind(o) ==
    IF o.conn = "timeout" THEN "timeout"
    ELSE IF o.conn = "exception" THEN "transport"
    ELSE IF Is401(o) THEN "auth"
    ELSE IF o.read = "timeout" THEN "timeout"
    ELSE "transport"

\* C14: with maxRetryAttempts = M >= 1, once M attempts have all ended in
\* retryable failures of any mix, the call has returned after exactly M
\* attempts, and what it returned is the exhaustion error of the kind of
\* the last failure: authentication-exhausted for a 401, timeout-exhausted
\* for a timeout, transport-exhausted for another exception; the three
\* errors are pairwise distinct.
C14_ExhaustionErrorByLastFailure ==
    /\ AuthenticationExhausted # TimeoutExhausted
    /\ AuthenticationExhausted # TransportExhausted
    /\ TimeoutExhausted # TransportExhausted
    /\ \A c \in ClientCalls :
        LET h == served[c]
            n == Len(h)
            M == max_retry_attempts
        IN (M >= 1 /\ n = M /\ \A i \in 1..n : RetryableFailure(h[i]))
           => /\ callState[c] = "returned"
              /\ invocations[c] = M
              /\ result[c] = CASE FailureKind(h[n]) = "auth"      -> AuthenticationExhausted
                               [] FailureKind(h[n]) = "timeout"   -> TimeoutExhausted
                               [] FailureKind(h[n]) = "transport" -> TransportExhausted

\* C14's case: a 401, a transport exception and then a timeout, with three
\* attempts allowed, ending in the timeout-exhausted error.
C14_Witness ==
    /\ max_retry_attempts = 3
    /\ callState[1] = "returned"
    /\ Len(served[1]) = 3
    /\ Is401(served[1][1])
    /\ served[1][2].conn = "exception"
    /\ served[1][3].conn = "timeout"
    /\ result[1] = TimeoutExhausted

\* The attempt received a status below 400.
IsSuccessStatus(o) == o.conn = "response" /\ o.status < 400

\* C15 (as claimed): an attempt that receives a status below 400 is the
\* call's last, and the call has returned a success value: the parsed JSON,
\* or {data: raw text} for a body that is not JSON.
C15_SuccessStatusReturns ==
    \A c \in ClientCalls : \A i \in 1..Len(served[c]) :
        IsSuccessStatus(served[c][i]) =>
            /\ i = Len(served[c])
            /\ callState[c] = "returned"
            /\ result[c] = Payload(served[c][i])

\* C15 (amended): an attempt that receives a status below 400 and whose
\* body can be read is the call's last, and the call has returned a success
\* value: the parsed JSON, or {data: raw text} for a body that is not JSON.
C15_ReadableSuccessReturns ==
    \A c \in ClientCalls : \A i \in 1..Len(served[c]) :
        (IsSuccessStatus(served[c][i]) /\ Delivered200(served[c][i])) =>
            /\ i = Len(served[c])
            /\ callState[c] = "returned"
            /\ result[c] = Payload(served[c][i])

\* C15's case: a timeout, then a 200 whose body is not JSON.
C15_Witness ==
    /\ callState[1] = "returned"
    /\ Len(served[1]) = 2
    /\ served[1][1].conn = "timeout"
    /\ Delivered200(served[1][2])
    /\ served[1][2].body = "plain text"
    /\ result[1] = [data |-> "plain text"]

\* The forwarded HTTP requests that have not come back.
InFlight == {f \in 1..Len(forwards) : forwards[f].reply = Pending}

\* C16: the stream adapter is strictly sequential.  In every step: no input
\* line has more than one output line; the output lines are in the order of
\* the input lines they answer; at most one forwarded request is in flight;
\* and a step that reads a line reads exactly one, with no forwarded request
\* in flight and the line before it dealt with, and writes nothing that
\* answers an earlier line.
C16_StrictlySequential ==
    [][/\ \A k \in 1..Len(consumed') : Cardinality(AnswersTo(k)') <= 1
       /\ \A i, j \in 1..Len(wroteFor') : i < j => wroteFor'[i] < wroteFor'[j]
       /\ Cardinality(InFlight') <= 1
       /\ InFlight' # {} => pc' \in {"forwarding", "exited"}
       /\ Len(consumed') # Len(consumed) =>
             /\ Len(consumed') = Len(consumed) + 1
             /\ pc = "reading"
             /\ InFlight = {}
             /\ \A k \in 1..Len(consumed) : Processed(k)
             /\ \A j \in (Len(stdout) + 1)..Len(stdout') : wroteFor'[j] = Len(consumed')
       /\ Len(consumed') = Len(consumed) =>
             \A j \in (Len(stdout) + 1)..Len(stdout') : wroteFor'[j] = Len(consumed)
      ]_vars

\* C16's case: two forwarded lines, each answered before anything else
\* happened, the answers in the order of the lines.
C16_Witness ==
    /\ Len(consumed) = 2
    /\ Len(forwards) = 2
    /\ InFlight = {}
    /\ pc = "reading"
    /\ wroteFor = <<1, 2>>

\* The methods the bridge answers by itself, and what it answers with.
LocalMethods == {"initialize", "tools/list", "resources/list"}

StaticResult(method) ==
    CASE method = "initialize"     -> <<"initialize">>
      [] method = "tools/list"     -> <<"list_tools">>
      [] method = "resources/list" -> <<"list_resources">>

\* C17: a line with method initialize, tools/list or resources/list is
\* answered by the bridge itself: exactly one response, a result response
\* with the id of the request (null if it has none) and the static
\* descriptor of that method, and no HTTP request was sent for the line.
C17_AnsweredLocally ==
    \A k \in 1..Len(consumed) :
        (consumed[k].form = "object" /\ consumed[k].method \in LocalMethods)
        => /\ ForwardsFor(k) = {}
           /\ Cardinality(AnswersTo(k)) = 1
           /\ \A j \in AnswersTo(k) :
                 /\ stdout[j].keys = {"jsonrpc", "id", "result"}
                 /\ stdout[j].id = Get(consumed[k].id)
                 /\ stdout[j].result = StaticResult(consumed[k].method)

\* C17's case: tools/list with id-2 was answered, with nothing forwarded.
C17_Witness ==
    /\ Len(consumed) = 1
    /\ consumed[1].form = "object"
    /\ consumed[1].method = "tools/list"
    /\ consumed[1].id = "id-2"
    /\ forwards = <<>>
    /\ Len(stdout) = 1
    /\ stdout[1].id = "id-2"

\* C18 (as claimed): when the bridge has exited, it got there from the
\* read at end-of-input or by an interrupt, and not through a fatal error:
\* the last diagnostic line is the shutdown notice and no fatal error was
\* reported; without an interrupt every line read had been dealt with.
C18_CleanExit ==
    pc = "exited" =>
        /\ stderr[Len(stderr)] = Shutdown
        /\ \A i \in 1..Len(stderr) : stderr[i] # <<"Fatal error: ">>
        /\ (\A i \in 1..Len(stderr) : stderr[i] # <<"Bridge interrupted">>)
              => InFlight = {}

\* C19 (as claimed): the envelope of a dispatched call is the bare error
\* form exactly when the tool name is unknown or a required argument is
\* missing, and the content form in every other case.
C19_BareErrorOnlyForDispatchFailures ==
    Dispatched =>
        /\ IsBareError(http.body) <=>
              (\/ http.name \notin RegisteredTools
               \/ LacksRequired(http.name, http.arguments))
        /\ ~IsBareError(http.body) => IsContent(http.body)

\* C20 (as claimed): the configuration allows at least one attempt, so a
\* call that has returned made at least one upstream attempt and did not
\* return the fall-through result of the loop.
C20_AtLeastOneAttempt ==
    \A c \in ClientCalls :
        callState[c] = "returned" =>
            /\ max_retry_attempts >= 1
            /\ invocations[c] >= 1
            /\ result[c] # [error |-> <<"Max retry attempts exceeded">>]

\* The dispatcher did not recognise the name of the last tool call.
AnsweredUnknownTool == http.body = [error |-> <<"Unknown tool: ", http.name>>]

\* C21 (as claimed): a call of a tool the bridge advertises in tools/list is
\* never answered "Unknown tool", and every tool the dispatcher recognises
\* is one the bridge advertises.
C21_AdvertisedIffRecognised ==
    Dispatched =>
        /\ http.name \in list_tools => ~AnsweredUnknownTool
        /\ ~AnsweredUnknownTool => http.name \in list_tools

\* The history of a call, filled up to a whole script (the filling is
\* never looked at: the call ended within its history).
AsScript(h) ==
    [i \in 1..MaxRetry |-> IF i <= Len(h) THEN h[i] ELSE Outcome("timeout", 0, "", "-")]

\* The step was taken by call c.
StepOf(c) == invocations'[c] # invocations[c] \/ callState'[c] # callState[c]

\* C22: with several calls of the request operation interleaved in any
\* order, a step of one call leaves the retry counter, the attempts, the
\* history, the state and the result of every other call as they were and
\* leaves the AuthConfig as it was; each call has counted only its own
\* attempts, never more than maxRetryAttempts of them; and what a call
\* returned is what the same call returns when it runs alone against the
\* answers that it received.
C22_ConcurrentCallsIndependent ==
    [][/\ max_retry_attempts' = max_retry_attempts
       /\ mcp_server_token' = mcp_server_token
       /\ \A c \in ConcurrentCalls : StepOf(c) =>
             \A d \in ConcurrentCalls \ {c} :
                /\ attempt'[d] = attempt[d]
                /\ invocations'[d] = invocations[d]
                /\ served'[d] = served[d]
                /\ callState'[d] = callState[d]
                /\ result'[d] = result[d]
       /\ \A c \in ConcurrentCalls :
             /\ invocations'[c] = Len(served'[c])
             /\ invocations'[c] >= 1 => invocations'[c] <= max_retry_attempts
             /\ callState'[c] = "looping" => attempt'[c] = Len(served'[c])
             /\ callState'[c] = "returned" =>
                   LET alone == _make_api_request(AsScript(served'[c])) IN
                   /\ result'[c] = alone.value
                   /\ invocations'[c] = alone.requests
      ]_vars

\* C22's case: with three attempts allowed, one call used up its budget on
\* three 401s while the other, after two timeouts of its own, got its
\* payload on its third attempt.
C22_Witness ==
    /\ max_retry_attempts = 3
    /\ DOMAIN callState = ConcurrentCalls
    /\ callState[1] = "returned" /\ callState[2] = "returned"
    /\ Len(served[1]) = 3 /\ \A i \in 1..3 : Is401(served[1][i])
    /\ result[1] = AuthenticationExhausted
    /\ Len(served[2]) = 3
    /\ served[2][1].conn = "timeout" /\ served[2][2].conn = "timeout"
    /\ result[2] = [id |-> 42]

\* The object is a JSON-RPC 2.0 response: version "2.0", and exactly one of
\* the members result and error.
IsJsonRpcResponse(r) ==
    /\ "jsonrpc" \in r.keys
    /\ r.jsonrpc = "2.0"
    /\ r.keys \subseteq {"jsonrpc", "id", "result", "error"}
    /\ ("result" \in r.keys) # ("error" \in r.keys)

\* C23: after any sequence of input lines, every line on stdout is one
\* JSON-RPC response with jsonrpc "2.0" and exactly one of result and
\* error, written in answer to a line that was read; the startup notice is
\* on the diagnostic stream and nothing is on stdout before the first line;
\* a step that logs progress or an error writes at most the one response;
\* and the step that ends the bridge writes its notices to the diagnostic
\* stream, ending with the shutdown notice, and nothing to stdout.
C23_StdoutCarriesOnlyResponses ==
    [][/\ \A j \in 1..Len(stdout') :
             /\ IsJsonRpcResponse(stdout'[j])
             /\ wroteFor'[j] \in 1..Len(consumed')
       /\ Len(stdout') <= Len(consumed')
       /\ Len(stderr') >= Len(Startup)
       /\ \A i \in 1..Len(Startup) : stderr'[i] = Startup[i]
       /\ Len(stdout') <= Len(stdout) + 1
       /\ \A j \in 1..Len(stdout) : stdout'[j] = stdout[j]
       /\ (pc' = "exited" /\ pc # "exited") =>
             /\ stdout' = stdout
             /\ stderr'[Len(stderr')] = Shutdown
      ]_vars

\* C23's case: a result response and an error response were written, with
\* diagnostics logged on the way, and the bridge has shut down.
C23_Witness ==
    /\ pc = "exited"
    /\ Len(stdout) = 2
    /\ "result" \in stdout[1].keys
    /\ "error" \in stdout[2].keys
    /\ Len(stderr) > Len(Startup) + 2

====
